---- MODULE Spec2Model ----
(***************************************************************************)
(* A model of util::Range (range.hpp) and util::zip (zip.hpp).             *)
(*                                                                         *)
(* Range<IntegerType> is modelled for an IntegerType of IntBits bits,      *)
(* signed or unsigned (sgn), no wider than std::size_t (SizeBits bits), so *)
(* that `_val += n*_pace` is evaluated in std::size_t and converted back.  *)
(* The sequences handed to zip are modelled as random-access containers;   *)
(* a sub-iterator is the index it points at (begin = 0, end = length).     *)
(***************************************************************************)
EXTENDS Integers, Sequences, FiniteSets, TLC

\* ------------------------------------------------------------------ bounds
IntBits == 4
MaxN == 3
MaxLen == 5
MaxArity == 3
MaxWrites == 2

\* std::size_t is at least as wide as the modelled IntegerType.
SizeBits == IntBits + 2
IntMod == 2 ^ IntBits
SizeMod == 2 ^ SizeBits
\* After IntMod increments an iterator is back at its first value.
MaxSteps == IntMod

VARIABLES
    sgn,     \* TRUE: IntegerType is signed; FALSE: unsigned
    rng,     \* the Range object: [start, end, pace]
    it,      \* the loop's Range::Iterator: [val, pace]
    last,    \* the iterator the loop compares against: [val, pace]
    out,     \* the values the loop has yielded so far
    pc,      \* position of the driving loop
    op,      \* the last iterator operation applied: [name, n, before]
    seqs,    \* the sequences handed to zip (owned by the caller)
    za,      \* a zip_iterator: the tuple of its sub-iterators
    zb,      \* a second zip_iterator: end()
    ztup,    \* the tuple of references the last *za returned
    zout,    \* the tuples of values the loop has yielded so far
    zpc,     \* position of the loop driving the zip
    zderefs, \* the references dereferenced so far
    zop,     \* the last zip_iterator operation applied: [name, n, before]
    zw       \* the writes made through *za: [count, on, val] (the last one)

rvars == <<sgn, rng, it, last, out, pc, op>>
zvars == <<seqs, za, zb, ztup, zout, zpc, zderefs, zop, zw>>
vars == <<rvars, zvars>>

\* No zip is in use.
ZipIdle ==
    /\ seqs = <<>>
    /\ za = <<>>
    /\ zb = <<>>
    /\ ztup = <<>>
    /\ zout = <<>>
    /\ zpc = "unused"
    /\ zderefs = {}
    /\ zop = [name |-> "none", n |-> 0, before |-> <<>>]
    /\ zw = [count |-> 0, on |-> 0, val |-> <<0, 0>>]

\* No Range is in use.
RangeIdle ==
    /\ sgn = FALSE
    /\ rng = [start |-> 0, end |-> 0, pace |-> 1]
    /\ it = [val |-> 0, pace |-> 1]
    /\ last = [val |-> 0, pace |-> 1]
    /\ out = <<>>
    /\ pc = "unused"
    /\ op = [name |-> "none", n |-> 0, before |-> [val |-> 0, pace |-> 1]]

\* ------------------------------------------------------- integer arithmetic
IntVals(s) == IF s THEN (0 - IntMod \div 2) .. (IntMod \div 2 - 1) ELSE 0 .. (IntMod - 1)

\* Conversion of an IntegerType value to std::size_t (modulo 2^SizeBits).
ToSize(x) == x % SizeMod

\* Variant of ToInteger: the result is not reduced to IntBits bits.
ToIntegerWide(s, u) == IF s /\ u >= SizeMod \div 2 THEN u - SizeMod ELSE u

\* Conversion of a std::size_t value back to IntegerType.
ToInteger(s, u) ==
    LET m == u % IntMod
    IN  IF s /\ m >= IntMod \div 2 THEN m - IntMod ELSE m

\* ---------------------------------------------------------- Range::Iterator
Iterator(val, pace) == [val |-> val, pace |-> pace]

Deref(i) == i.val

\* std::size_t arithmetic: unsigned, modulo 2^SizeBits
SizeMul(a, b) == (a * b) % SizeMod
SizeAdd(a, b) == (a + b) % SizeMod
SizeSub(a, b) == (a - b) % SizeMod

\* Variant of OpPlusEq: _val += n
OpPlusEqUnit(s, i, n) == [i EXCEPT !.val = ToInteger(s, SizeAdd(ToSize(i.val), n))]

\* operator+=(n): _val += n*_pace, with n a std::size_t
OpPlusEq(s, i, n) ==
    [i EXCEPT !.val = ToInteger(s, SizeAdd(ToSize(i.val), SizeMul(n, ToSize(i.pace))))]

\* operator++(): (*this) += 1
OpInc(s, i) == OpPlusEq(s, i, 1)

\* Variant of OpMinusEq: _val -= _pace
OpMinusEqOnce(s, i, n) == [i EXCEPT !.val = ToInteger(s, SizeSub(ToSize(i.val), ToSize(i.pace)))]

\* operator-=(n): _val -= n*_pace
OpMinusEq(s, i, n) ==
    [i EXCEPT !.val = ToInteger(s, SizeSub(ToSize(i.val), SizeMul(n, ToSize(i.pace))))]

\* operator--(): *this -= 1
OpDec(s, i) == OpMinusEq(s, i, 1)

\* operator==: only _val is compared
IterEq(a, b) == a.val = b.val

\* Variant of IterNeq: *this < o
IterNeqLess(a, b) == a.val < b.val

\* operator!=: !(*this == o)
IterNeq(a, b) == ~IterEq(a, b)

\* ------------------------------------------------------------------- Range
Range(start, end, pace) == [start |-> start, end |-> end, pace |-> pace]

Begin(r) == Iterator(r.start, r.pace)
End(r) == Iterator(r.end, r.pace)
RBegin(s, r) == OpDec(s, End(r))
REnd(s, r) == OpDec(s, Begin(r))

NoOp == [name |-> "none", n |-> 0, before |-> Iterator(0, 1)]

\* ------------------------------------------------ the loops driving a Range
RangeInit ==
    /\ sgn \in BOOLEAN
    /\ \E s \in IntVals(sgn), e \in IntVals(sgn), p \in IntVals(sgn) :
          rng = Range(s, e, p)
    /\ it = Iterator(0, 1)
    /\ last = Iterator(0, 1)
    /\ out = <<>>
    /\ pc = "idle"
    /\ op = NoOp
    /\ ZipIdle

\* for (it = r.begin(); it != r.end(); ++it)
LoopBegin ==
    /\ pc = "idle"
    /\ it' = Begin(rng)
    /\ last' = End(rng)
    /\ pc' = "fwd"
    /\ UNCHANGED <<sgn, rng, out, op, zvars>>

\* for (it = r.rbegin(); it != r.rend(); ++it)
LoopRBegin ==
    /\ pc = "idle"
    /\ it' = RBegin(sgn, rng)
    /\ last' = REnd(sgn, rng)
    /\ pc' = "rev"
    /\ UNCHANGED <<sgn, rng, out, op, zvars>>

\* one iteration: the test it != last passes, *it is yielded, ++it
LoopStep ==
    /\ pc \in {"fwd", "rev"}
    /\ IterNeq(it, last)
    /\ Len(out) < MaxSteps
    /\ out' = Append(out, Deref(it))
    /\ it' = OpInc(sgn, it)
    /\ UNCHANGED <<sgn, rng, last, pc, op, zvars>>

\* the test it != last fails: the loop is left
LoopExit ==
    /\ pc \in {"fwd", "rev"}
    /\ ~IterNeq(it, last)
    /\ pc' = IF pc = "fwd" THEN "fwd_done" ELSE "rev_done"
    /\ UNCHANGED <<sgn, rng, it, last, out, op, zvars>>

RangeNext == LoopBegin \/ LoopRBegin \/ LoopStep \/ LoopExit

SpecRange == RangeInit /\ [][RangeNext]_vars

\* ------------------------------------- operations on one Range::Iterator
IterInit ==
    /\ sgn \in BOOLEAN
    /\ \E v \in IntVals(sgn), p \in IntVals(sgn) : it = Iterator(v, p)
    /\ rng = Range(0, 0, 1)
    /\ last = Iterator(0, 1)
    /\ out = <<>>
    /\ pc = "ops"
    /\ op = NoOp
    /\ ZipIdle

DoInc ==
    /\ it' = OpInc(sgn, it)
    /\ op' = [name |-> "inc", n |-> 1, before |-> it]
    /\ UNCHANGED <<sgn, rng, last, out, pc, zvars>>

DoDec ==
    /\ it' = OpDec(sgn, it)
    /\ op' = [name |-> "dec", n |-> 1, before |-> it]
    /\ UNCHANGED <<sgn, rng, last, out, pc, zvars>>

DoPlusEq ==
    \E n \in 0 .. MaxN :
        /\ it' = OpPlusEq(sgn, it, n)
        /\ op' = [name |-> "pluseq", n |-> n, before |-> it]
        /\ UNCHANGED <<sgn, rng, last, out, pc, zvars>>

DoMinusEq ==
    \E n \in 0 .. MaxN :
        /\ it' = OpMinusEq(sgn, it, n)
        /\ op' = [name |-> "minuseq", n |-> n, before |-> it]
        /\ UNCHANGED <<sgn, rng, last, out, pc, zvars>>

IterNext == DoInc \/ DoDec \/ DoPlusEq \/ DoMinusEq

SpecIter == IterInit /\ [][IterNext]_vars

\* =================================================================== zip
\* The j-th element of the i-th sequence initially holds the value <<i, j>>.
Tagged(i, n) == [j \in 1 .. n |-> <<i, j>>]
\* The value the k-th write through a dereferenced tuple stores: a value
\* that is in no sequence.
NewVal(k) == <<0, k>>
\* What reading through an invalid reference may give.
UBVals == {<<0, 0>>, <<0, 1>>}

\* Sub-iterators of a wrapped container c: begin(), end(), and a
\* default-constructed one.
ContainerBegin(c) == 0
ContainerEnd(c) == Len(c)
NullPos == 0 - 1

\* A reference to the element at position pos of the i-th wrapped sequence.
Ref(i, pos) == [seq |-> i, pos |-> pos]
ValidRef(cs, r) == r.pos >= 0 /\ r.pos < Len(cs[r.seq])

\* zip_iterator default-constructed: `iterator begin_it;`
DefaultZip(n) == [i \in 1 .. n |-> NullPos]

\* zip_impl::begin<int, A, B...>: the rest first, then A's component
RECURSIVE BeginRec(_, _, _)
BeginRec(cs, bit, k) ==
    IF k > Len(cs) THEN bit
    ELSE LET r == BeginRec(cs, bit, k + 1)
         IN  [r EXCEPT ![k] = ContainerBegin(cs[k])]

\* zip_impl::begin()
ZipBegin(cs) == BeginRec(cs, DefaultZip(Len(cs)), 1)

\* zip_impl::end<int, A, B...>
RECURSIVE EndRec(_, _, _)
EndRec(cs, eit, k) ==
    IF k > Len(cs) THEN eit
    ELSE LET r == EndRec(cs, eit, k + 1)
         IN  [r EXCEPT ![k] = ContainerEnd(cs[k])]

\* zip_impl::end()
ZipEnd(cs) == EndRec(cs, DefaultZip(Len(cs)), 1)

\* Variant of PlusEqRec: a sub-iterator at the end of its sequence stays there.
RECURSIVE PlusEqRecStopAtEnd(_, _, _)
PlusEqRecStopAtEnd(zi, idx, n) ==
    IF idx > Len(zi) THEN zi
    ELSE LET r == PlusEqRecStopAtEnd(zi, idx + 1, n)
         IN  [r EXCEPT ![idx] = IF r[idx] >= Len(seqs[idx]) THEN r[idx] ELSE r[idx] + n]

\* zip_iterator::operator+=<Idx, A, B...>(n): the rest first, then
\* get<Idx> = get<Idx> + n
RECURSIVE PlusEqRec(_, _, _)
PlusEqRec(zi, idx, n) ==
    IF idx > Len(zi) THEN zi
    ELSE LET r == PlusEqRec(zi, idx + 1, n)
         IN  [r EXCEPT ![idx] = r[idx] + n]

\* zip_iterator::operator+=(n)
ZipPlusEq(zi, n) == PlusEqRec(zi, 1, n)

\* zip_iterator::operator++(): *this += 1
ZipInc(zi) == ZipPlusEq(zi, 1)

\* zip_iterator::operator--<Idx, A, B...>(): the rest first, then --get<Idx>
RECURSIVE DecRec(_, _)
DecRec(zi, idx) ==
    IF idx > Len(zi) THEN zi
    ELSE LET r == DecRec(zi, idx + 1)
         IN  [r EXCEPT ![idx] = r[idx] - 1]

\* zip_iterator::operator--()
ZipDec(zi) == DecRec(zi, 1)

\* zip_iterator::operator-=(n): n times --(*this)
RECURSIVE ZipMinusEq(_, _)
ZipMinusEq(zi, n) == IF n = 0 THEN zi ELSE ZipMinusEq(ZipDec(zi), n - 1)

\* Variant of DerefRec: the component is chosen by the int template argument
\* (0 in the first call, 1 in every later one).
RECURSIVE DerefRecByInt(_, _)
DerefRecByInt(zi, k) ==
    IF k > Len(zi) THEN <<>>
    ELSE <<Ref(IF k = 1 THEN 1 ELSE 2, zi[IF k = 1 THEN 1 ELSE 2])>> \o DerefRecByInt(zi, k + 1)

\* zip_iterator::operator*<int, A, B...>(): a reference to what A's
\* sub-iterator (component k = len - sizeof...(B) - 1) points at, then the rest
RECURSIVE DerefRec(_, _)
DerefRec(zi, k) ==
    IF k > Len(zi) THEN <<>>
    ELSE <<Ref(k, zi[k])>> \o DerefRec(zi, k + 1)

\* zip_iterator::operator*()
ZipDeref(zi) == DerefRec(zi, 1)

\* Variant of EqRec: equal when all pairs of sub-iterators are equal.
RECURSIVE EqRecAll(_, _, _)
EqRecAll(a, b, idx) ==
    IF idx > Len(a) THEN TRUE
    ELSE a[idx] = b[idx] /\ EqRecAll(a, b, idx + 1)

\* zip_iterator::operator==<Idx, A, B...>(other)
RECURSIVE EqRec(_, _, _)
EqRec(a, b, idx) ==
    IF idx > Len(a) THEN FALSE
    ELSE a[idx] = b[idx] \/ EqRec(a, b, idx + 1)

\* zip_iterator::operator==(other)
ZipEq(a, b) == EqRec(a, b, 1)

\* Variant of ZipNeq: different when some pair of sub-iterators differs.
ZipNeqSome(a, b) == \E i \in 1 .. Len(a) : a[i] # b[i]

\* zip_iterator::operator!=(other): ! operator==<0, Args...>(other)
ZipNeq(a, b) == ~EqRec(a, b, 1)

\* zip_iterator::operator!=<Idx, A, B...>(other) (private)
RECURSIVE NeqRec(_, _, _)
NeqRec(a, b, idx) ==
    IF idx > Len(a) THEN TRUE
    ELSE a[idx] # b[idx] /\ NeqRec(a, b, idx + 1)

\* Reading the values behind a tuple of references. Reading through a
\* reference that points outside its sequence is undefined: any value.
ReadOutcomes(cs, tup) ==
    IF \A i \in 1 .. Len(tup) : ValidRef(cs, tup[i])
    THEN {[i \in 1 .. Len(tup) |-> cs[tup[i].seq][tup[i].pos + 1]]}
    ELSE {[i \in 1 .. Len(tup) |->
              IF ValidRef(cs, tup[i]) THEN cs[tup[i].seq][tup[i].pos + 1] ELSE g] :
          g \in UBVals}

\* Variant of StoreOutcomes: the tuple holds copies, the sequences are untouched.
StoreCopy(cs, r, v) == {cs}

\* Assigning v through the reference r. Writing through a reference that
\* points outside its sequence is undefined: nothing visible changes, or some
\* element of some sequence is overwritten.
StoreOutcomes(cs, r, v) ==
    IF ValidRef(cs, r)
    THEN {[cs EXCEPT ![r.seq][r.pos + 1] = v]}
    ELSE {cs} \cup {[cs EXCEPT ![i][j] = v] :
                       i \in {k \in 1 .. Len(cs) : Len(cs[k]) > 0}, j \in 1 .. MaxLen}

NoZipOp == [name |-> "none", n |-> 0, before |-> <<>>]
NoWrite == [count |-> 0, on |-> 0, val |-> <<0, 0>>]

\* zip(seq_1, ..., seq_N) over N >= 1 sequences of any lengths
ZipContainers ==
    \E N \in 1 .. MaxArity :
        \E ls \in [1 .. N -> 0 .. MaxLen] :
            seqs = [i \in 1 .. N |-> Tagged(i, ls[i])]

\* -------------------------------------------------- the loop driving a zip
ZipInit ==
    /\ RangeIdle
    /\ ZipContainers
    /\ za = DefaultZip(Len(seqs))
    /\ zb = DefaultZip(Len(seqs))
    /\ ztup = <<>>
    /\ zout = <<>>
    /\ zpc = "idle"
    /\ zderefs = {}
    /\ zop = NoZipOp
    /\ zw = NoWrite

\* it = z.begin(), compared against z.end()
ZLoopBegin ==
    /\ zpc = "idle"
    /\ za' = ZipBegin(seqs)
    /\ zb' = ZipEnd(seqs)
    /\ zpc' = "test"
    /\ UNCHANGED <<rvars, seqs, ztup, zout, zderefs, zop, zw>>

\* it != end()
ZLoopTest ==
    /\ zpc = "test"
    /\ zpc' = IF ZipNeq(za, zb) THEN "deref" ELSE "done"
    /\ UNCHANGED <<rvars, seqs, za, zb, ztup, zout, zderefs, zop, zw>>

\* *it: the tuple of references, whose values are yielded
ZLoopDeref ==
    /\ zpc = "deref"
    /\ ztup' = ZipDeref(za)
    /\ zderefs' = zderefs \cup {ztup'[i] : i \in 1 .. Len(ztup')}
    /\ \E t \in ReadOutcomes(seqs, ztup') : zout' = Append(zout, t)
    /\ zpc' = "body"
    /\ UNCHANGED <<rvars, seqs, za, zb, zop, zw>>

\* ++it
ZLoopInc ==
    /\ zpc = "body"
    /\ \A i \in 1 .. Len(za) : za[i] <= MaxLen
    /\ za' = ZipInc(za)
    /\ zpc' = "test"
    /\ UNCHANGED <<rvars, seqs, zb, ztup, zout, zderefs, zop, zw>>

\* std::get<j>(*it) = v in the loop body
ZLoopWrite ==
    /\ zpc = "body"
    /\ zw.count < MaxWrites
    /\ \E j \in 1 .. Len(ztup) :
          /\ \E cs \in StoreOutcomes(seqs, ztup[j], NewVal(zw.count + 1)) : seqs' = cs
          /\ zw' = [count |-> zw.count + 1, on |-> j, val |-> NewVal(zw.count + 1)]
    /\ UNCHANGED <<rvars, za, zb, ztup, zout, zpc, zderefs, zop>>

ZipLoopNext == ZLoopBegin \/ ZLoopTest \/ ZLoopDeref \/ ZLoopInc
SpecZipLoop == ZipInit /\ [][ZipLoopNext]_vars

ZipWriteNext == ZLoopBegin \/ ZLoopTest \/ ZLoopDeref \/ ZLoopInc \/ ZLoopWrite
SpecZipWrite == ZipInit /\ [][ZipWriteNext]_vars

\* ----------------------------------------- operations on a zip_iterator
\* za starts as begin() and is moved by ++, --, += n, -= n; zb stays end().
InReach(zi) == zi[1] >= 0 - 1 /\ zi[1] <= MaxLen + 1

ZipOpsInit ==
    /\ RangeIdle
    /\ ZipContainers
    /\ za = ZipBegin(seqs)
    /\ zb = ZipEnd(seqs)
    /\ ztup = <<>>
    /\ zout = <<>>
    /\ zpc = "ops"
    /\ zderefs = {}
    /\ zop = [name |-> "none", n |-> 0, before |-> za]
    /\ zw = NoWrite

ZOpInc ==
    /\ InReach(ZipInc(za))
    /\ za' = ZipInc(za)
    /\ zop' = [name |-> "inc", n |-> 1, before |-> za]
    /\ UNCHANGED <<rvars, seqs, zb, ztup, zout, zpc, zderefs, zw>>

ZOpDec ==
    /\ InReach(ZipDec(za))
    /\ za' = ZipDec(za)
    /\ zop' = [name |-> "dec", n |-> 1, before |-> za]
    /\ UNCHANGED <<rvars, seqs, zb, ztup, zout, zpc, zderefs, zw>>

ZOpPlusEq ==
    \E n \in 0 .. MaxN :
        /\ InReach(ZipPlusEq(za, n))
        /\ za' = ZipPlusEq(za, n)
        /\ zop' = [name |-> "pluseq", n |-> n, before |-> za]
        /\ UNCHANGED <<rvars, seqs, zb, ztup, zout, zpc, zderefs, zw>>

ZOpMinusEq ==
    \E n \in 0 .. MaxN :
        /\ InReach(ZipMinusEq(za, n))
        /\ za' = ZipMinusEq(za, n)
        /\ zop' = [name |-> "minuseq", n |-> n, before |-> za]
        /\ UNCHANGED <<rvars, seqs, zb, ztup, zout, zpc, zderefs, zw>>

ZipOpsNext == ZOpInc \/ ZOpDec \/ ZOpPlusEq \/ ZOpMinusEq
SpecZipOps == ZipOpsInit /\ [][ZipOpsNext]_vars

\* ================================================= properties of Range
\* The value of IntegerType congruent to the integer x modulo 2^IntBits.
Wrap(s, x) == CHOOSE v \in IntVals(s) : (v - x) % IntMod = 0

\* end - start is a non-negative exact multiple of pace > 0
AlignedUp(r) == r.pace > 0 /\ r.end >= r.start /\ (r.end - r.start) % r.pace = 0

\* start > end, pace < 0 and start - end is an exact multiple of -pace
AlignedDown(r) == r.pace < 0 /\ r.start > r.end /\ (r.start - r.end) % (0 - r.pace) = 0

\* pace # 0 and end - start is no multiple of pace, or pace points away from end
Misaligned(r) ==
    /\ r.pace # 0
    /\ \/ (r.end - r.start) % (IF r.pace < 0 THEN 0 - r.pace ELSE r.pace) # 0
       \/ r.pace > 0 /\ r.end < r.start
       \/ r.pace < 0 /\ r.end > r.start

\* The values start, start + pace, ... up to, not including, end.
Count(r) == (r.end - r.start) \div r.pace
Expected(r) == [j \in 1 .. Count(r) |-> r.start + (j - 1) * r.pace]
Reverse(q) == [j \in 1 .. Len(q) |-> q[Len(q) + 1 - j]]
IsPrefix(p, q) == Len(p) <= Len(q) /\ \A j \in 1 .. Len(p) : p[j] = q[j]

\* C4: with pace > 0 and end - start a non-negative multiple of pace, the
\* forward loop yields start + j*pace for j = 0, 1, ..., strictly increasing,
\* never more than (end - start) / pace values, ends having yielded exactly
\* that many (with pace 1: end - start values from start to end - 1), and
\* it does end: every iteration adds one value and, until the loop is left,
\* its next step (another iteration or the exit) is possible.
C4_RangeForward ==
    (AlignedUp(rng) /\ pc \in {"fwd", "fwd_done"}) =>
        /\ IsPrefix(out, Expected(rng))
        /\ \A j \in 1 .. Len(out) - 1 : out[j] < out[j + 1]
        /\ pc = "fwd_done" =>
              /\ out = Expected(rng)
              /\ Len(out) = (rng.end - rng.start) \div rng.pace
              /\ (rng.pace = 1 /\ rng.start < rng.end) =>
                    /\ Len(out) = rng.end - rng.start
                    /\ out[1] = rng.start
                    /\ out[Len(out)] = rng.end - 1
        /\ pc = "fwd" => (ENABLED LoopStep \/ ENABLED LoopExit)
C4_Witness ==
    /\ pc = "fwd_done"
    /\ AlignedUp(rng)
    /\ rng.pace > 1
    /\ Len(out) >= 3

\* C10: for a signed type, start > end, pace < 0 and start - end a multiple
\* of -pace, the forward loop yields start + j*pace for j = 0, 1, ...,
\* strictly decreasing, ends having yielded exactly (start - end) / (-pace)
\* values, and it does end: every iteration adds one value and, until the
\* loop is left, its next step (another iteration or the exit) is possible.
C10_RangeDownward ==
    (sgn /\ AlignedDown(rng) /\ pc \in {"fwd", "fwd_done"}) =>
        /\ IsPrefix(out, Expected(rng))
        /\ \A j \in 1 .. Len(out) - 1 : out[j] > out[j + 1]
        /\ \A j \in 1 .. Len(out) : out[j] > rng.end /\ out[j] <= rng.start
        /\ pc = "fwd_done" =>
              /\ out = Expected(rng)
              /\ Len(out) = (rng.start - rng.end) \div (0 - rng.pace)
        /\ pc = "fwd" => (ENABLED LoopStep \/ ENABLED LoopExit)
C10_Witness ==
    /\ pc = "fwd_done"
    /\ sgn
    /\ AlignedDown(rng)
    /\ rng.pace < -1
    /\ Len(out) >= 3

\* The least j >= 0 with start + j*pace congruent to end modulo 2^IntBits, or
\* -1 when there is none.
Solutions(r) == {j \in 0 .. IntMod - 1 : (r.start + j * r.pace - r.end) % IntMod = 0}
LeastSolution(r) ==
    LET sols == Solutions(r)
    IN  IF sols = {} THEN -1
        ELSE CHOOSE j \in sols : \A k \in sols : j <= k

\* C5 as stated: when end - start is no multiple of pace, or pace points
\* away from end, the forward loop never terminates.
C5_NeverTerminates == Misaligned(rng) => pc # "fwd_done"

\* C5 amended: in such a range the iterator after j increments holds
\* start + j*pace reduced modulo 2^IntBits; it equals end exactly when
\* start + j*pace is congruent to end modulo 2^IntBits, which happens only
\* once start + j*pace has left the type's range (the value has wrapped).
\* The loop is left after the least such j, and is never left when there
\* is none.
C5_WrapsToEnd ==
    (Misaligned(rng) /\ pc \in {"fwd", "fwd_done"}) =>
        LET j == Len(out)
            x == rng.start + j * rng.pace
            least == LeastSolution(rng)
        IN  /\ it.val = Wrap(sgn, x)
            /\ IterEq(it, last) <=> (x - rng.end) % IntMod = 0
            /\ IterEq(it, last) => x \notin IntVals(sgn)
            /\ \A i \in 1 .. j : out[i] # rng.end
            /\ pc = "fwd_done" => (j > 0 /\ j = least)
            /\ least = -1 => pc # "fwd_done"
            /\ least # -1 => j <= least
            /\ pc = "fwd" => (ENABLED LoopStep \/ ENABLED LoopExit \/ j = MaxSteps)
C5_Witness ==
    /\ pc = "fwd_done"
    /\ Misaligned(rng)
    /\ Len(out) > 0
    /\ it.val = rng.end

\* C6: for a range whose forward loop yields v_0, ..., v_{k-1}, the loop from
\* rbegin() to rend() advanced with ++ yields v_{k-1}, ..., v_0 and ends.
C6_ReverseOfForward ==
    ((AlignedUp(rng) \/ (sgn /\ AlignedDown(rng))) /\ pc \in {"rev", "rev_done"}) =>
        /\ IsPrefix(out, Reverse(Expected(rng)))
        /\ pc = "rev_done" => out = Reverse(Expected(rng))

\* n successive ++ applied to the iterator i
RECURSIVE IncTimes(_, _, _)
IncTimes(s, i, n) == IF n = 0 THEN i ELSE IncTimes(s, OpInc(s, i), n - 1)

\* C9: ++ sets the value to v + p, -- to v - p, += n to v + n*p (the value n
\* successive ++ give), -= n to v - n*p, in the arithmetic of IntegerType
\* (the exact sum whenever IntegerType can hold it, and the sum reduced
\* modulo 2^IntBits otherwise); -= n after += n restores the value; the pace
\* never changes.
C9_IteratorArithmetic ==
    LET v == op.before.val
        p == op.before.pace
        n == op.n
    IN  /\ op.name = "inc" => it.val = Wrap(sgn, v + p)
        /\ op.name = "dec" => it.val = Wrap(sgn, v - p)
        /\ op.name = "pluseq" =>
              /\ it.val = Wrap(sgn, v + n * p)
              /\ it = IncTimes(sgn, op.before, n)
              /\ OpMinusEq(sgn, it, n) = op.before
        /\ op.name = "minuseq" => it.val = Wrap(sgn, v - n * p)
        /\ op.name = "inc" /\ v + p \in IntVals(sgn) => it.val = v + p
        /\ op.name = "dec" /\ v - p \in IntVals(sgn) => it.val = v - p
        /\ op.name = "pluseq" /\ v + n * p \in IntVals(sgn) => it.val = v + n * p
        /\ op.name = "minuseq" /\ v - n * p \in IntVals(sgn) => it.val = v - n * p
        /\ op.name # "none" => it.pace = p
C9_Witness ==
    /\ op.name = "pluseq"
    /\ op.n = MaxN
    /\ op.before.pace < -1
    /\ it.val = op.before.val + op.n * op.before.pace

\* =================================================== properties of zip
\* The length of the shortest wrapped sequence.
MinLen(cs) == CHOOSE m \in {Len(cs[i]) : i \in 1 .. Len(cs)} :
                  \A i \in 1 .. Len(cs) : m <= Len(cs[i])
\* The k-th tuple (k = 1, 2, ...) zip is to yield: (seq_1[k], ..., seq_N[k]).
Row(cs, k) == [i \in 1 .. Len(cs) |-> cs[i][k]]

\* C1: the loop from begin() to end() yields (seq_1[k], ..., seq_N[k]) for
\* k = 0, 1, ... in argument order, never more than the shortest length, is
\* left having yielded exactly min(length(seq_1), ..., length(seq_N)) tuples,
\* and it is left: until then its next step is always possible.
C1_ZipYieldsMinLen ==
    zpc \in {"test", "deref", "body", "done"} =>
        /\ Len(zout) <= MinLen(seqs)
        /\ \A k \in 1 .. Len(zout) : zout[k] = Row(seqs, k)
        /\ zpc = "done" => Len(zout) = MinLen(seqs)
        /\ zpc = "test" => \A i \in 1 .. Len(za) : za[i] = Len(zout)
        /\ zpc # "done" => (ENABLED ZLoopTest \/ ENABLED ZLoopDeref \/ ENABLED ZLoopInc)
C1_Witness ==
    /\ zpc = "done"
    /\ Len(seqs) = 3
    /\ Len(zout) = 2
    /\ Len(seqs[1]) = 3
    /\ Len(seqs[2]) = 2
    /\ Len(seqs[3]) = 5
    /\ zout[2] = <<seqs[1][2], seqs[2][2], seqs[3][2]>>

\* C2: in the loop every dereference is of sub-iterators each strictly
\* before the end of its own sequence, and no element at an index at or
\* beyond the shortest length is ever dereferenced.
C2_DerefInBounds ==
    /\ \A r \in zderefs :
          /\ ValidRef(seqs, r)
          /\ r.pos < MinLen(seqs)
    /\ zpc = "deref" => \A i \in 1 .. Len(za) : za[i] >= 0 /\ za[i] < Len(seqs[i])
C2_Witness ==
    /\ zpc = "done"
    /\ Len(seqs) = 2
    /\ Len(seqs[1]) = 3
    /\ Len(seqs[2]) = 5
    /\ zderefs = {Ref(i, p) : i \in 1 .. 2, p \in 0 .. 2}
    /\ Ref(2, 3) \notin zderefs
    /\ Ref(2, 4) \notin zderefs

\* C3: a == b is true iff the sub-iterators are equal at some index, a != b
\* is true iff they differ at every index, and a != b is the negation of
\* a == b.
C3_AnyPairEqual ==
    zpc = "ops" =>
        /\ ZipEq(za, zb) <=> (\E i \in 1 .. Len(za) : za[i] = zb[i])
        /\ ZipNeq(za, zb) <=> (\A i \in 1 .. Len(za) : za[i] # zb[i])
        /\ ZipNeq(za, zb) <=> ~ZipEq(za, zb)
        /\ ZipEq(zb, za) <=> ZipEq(za, zb)
        /\ NeqRec(za, zb, 1) <=> ZipNeq(za, zb)
C3_Witness ==
    /\ zpc = "ops"
    /\ Len(za) = 3
    /\ zop.name = "pluseq"
    /\ za[1] = 2
    /\ ZipEq(za, zb)
    /\ za[1] # zb[1]
    /\ za[2] # zb[2]
    /\ za[3] = zb[3]

\* C7: a write through component j of the tuple obtained at position i
\* sets element i of the j-th sequence to the written value and changes no
\* other element, no length and no iterator.
C7_WriteThrough ==
    [][zw'.count = zw.count + 1 =>
          /\ zpc = "body"
          /\ seqs' = [seqs EXCEPT ![zw'.on][za[zw'.on] + 1] = zw'.val]
          /\ seqs'[zw'.on][Len(zout)] = zw'.val
          /\ za' = za
          /\ zb' = zb
          /\ ztup' = ztup]_vars
C7_Witness ==
    /\ zw.count = 2
    /\ Len(seqs) = 3
    /\ zw.on = 3
    /\ Len(zout) = 2
    /\ seqs[3][2] = zw.val
    /\ seqs[1][1] = NewVal(1)

\* C8: ++ moves every sub-iterator by one and += n by n, -- by minus one and
\* -= n by minus n, also those at or past the end of their sequence; so all
\* sub-iterators of an iterator obtained from begin() are at one offset.
C8_Lockstep ==
    zpc = "ops" =>
        /\ \A i \in 1 .. Len(za) : za[i] - ContainerBegin(seqs[i]) = za[1] - ContainerBegin(seqs[1])
        /\ Len(za) = Len(seqs)
        /\ zop.name \in {"inc", "pluseq"} =>
              \A i \in 1 .. Len(za) : za[i] = zop.before[i] + zop.n
        /\ zop.name \in {"dec", "minuseq"} =>
              \A i \in 1 .. Len(za) : za[i] = zop.before[i] - zop.n
C8_Witness ==
    /\ zpc = "ops"
    /\ Len(za) = 3
    /\ zop.name = "inc"
    /\ zop.before[1] = Len(seqs[1])
    /\ zop.before[2] > Len(seqs[2])
    /\ zop.before[3] < Len(seqs[3])
    /\ za[1] = Len(seqs[1]) + 1
====
